---- MODULE Spec2Model ----
(***************************************************************************)
(* Model of SapAiCoreHandler (src/src/api/providers/sapaicore.ts): the     *)
(* token cache, the deployment cache, createMessage and the two stream     *)
(* parsers.                                                                *)
(*                                                                         *)
(* Strings that the code cuts or lower-cases are sequences of one-letter   *)
(* strings, so that split(":")[0] and toLowerCase() are computed.          *)
(***************************************************************************)
EXTENDS Integers, Sequences, FiniteSets, TLC

\* ------------------------------------------------------------------ bounds
MaxCalls == 2

MaxTicks == 1

\* the longest expires_in, in seconds, the token endpoint answers with
MaxExpiresIn == 2

\* lines of one response, lines of one chunk, chunk boundaries inside a line
MaxLines == 3

MaxChunkLines == 2

MaxCuts == 1

\* entries of a listing given to getDeploymentForModel on its own
MaxList == 2

\* ------------------------------------------------------------------ strings
UpperLetters == <<"A","B","C","D","E","F","G","H","I","J","K","L","M",
                  "N","O","P","Q","R","S","T","U","V","W","X","Y","Z">>

LowerLetters == <<"a","b","c","d","e","f","g","h","i","j","k","l","m",
                  "n","o","p","q","r","s","t","u","v","w","x","y","z">>

\* the lower-case letter of each upper-case letter
UpperToLower ==
  [ch \in {UpperLetters[i] : i \in 1..26} |->
     LowerLetters[CHOOSE i \in 1..26 : UpperLetters[i] = ch]]

\* String.prototype.toLowerCase on one character
LowerChar(ch) == IF ch \in DOMAIN UpperToLower THEN UpperToLower[ch] ELSE ch

\* String.prototype.toLowerCase
toLowerCase(s) == [i \in 1..Len(s) |-> LowerChar(s[i])]

\* s.split(":")[0]: the text before the first ":" (all of s when it has none)
RECURSIVE SplitColon0(_)
SplitColon0(s) ==
  IF s = <<>> THEN <<>>
  ELSE IF Head(s) = ":" THEN <<>>
  ELSE <<Head(s)>> \o SplitColon0(Tail(s))

\* d.name.split(":")[0].toLowerCase()
BaseName(s) == toLowerCase(SplitColon0(s))

\* ------------------------------------------------------------------ model ids
Claude35Sonnet == <<"a","n","t","h","r","o","p","i","c","-","-","c","l","a","u","d","e","-","3",".","5","-","s","o","n","n","e","t">>

Claude3Sonnet == <<"a","n","t","h","r","o","p","i","c","-","-","c","l","a","u","d","e","-","3","-","s","o","n","n","e","t">>

Claude3Haiku == <<"a","n","t","h","r","o","p","i","c","-","-","c","l","a","u","d","e","-","3","-","h","a","i","k","u">>

Claude3Opus == <<"a","n","t","h","r","o","p","i","c","-","-","c","l","a","u","d","e","-","3","-","o","p","u","s">>

Gpt4o == <<"g","p","t","-","4","o">>

Gpt4 == <<"g","p","t","-","4">>

Gpt4oMini == <<"g","p","t","-","4","o","-","m","i","n","i">>

\* a registry entry that belongs to neither family
OtherModel == <<"g","e","m","i","n","i">>

\* an id the registry does not know
UnknownModel == <<"n","o","n","e">>

anthropicModels == {Claude35Sonnet, Claude3Sonnet, Claude3Haiku, Claude3Opus}

openAIModels == {Gpt4o, Gpt4, Gpt4oMini}

\* shared/api.ts is not among the sources: the registry is the two families
\* plus one id of neither, the default is the first Anthropic id
sapAiCoreModels == anthropicModels \cup openAIModels \cup {OtherModel}

sapAiCoreDefaultModelId == Claude35Sonnet

\* an undefined string (a property that is missing); not a text, its one
\* element is no letter
Absent == <<"undefined">>

\* !s for a string or undefined: undefined and "" are falsy
Falsy(s) == s = Absent \/ s = <<>>

\* getModel().id for options.apiModelId = m
getModel(m) ==
  IF ~Falsy(m) /\ m \in sapAiCoreModels THEN m ELSE sapAiCoreDefaultModelId

\* ------------------------------------------------------------------ deployments
\* this.token before its first assignment
Undefined == [undefined |-> TRUE]

\* this.deployments: before its first assignment, and holding a list
NoDeployments == [defined |-> FALSE, list |-> <<>>]

Fetched(list) == [defined |-> TRUE, list |-> list]

\* the row the map callback returns for a resource it skips
Null == [null |-> TRUE]

\* one entry of response.data.resources; hasModel is whether
\* details.resources.backend_details.model is there
Resource(id, status, hasModel, name, version) ==
  [id |-> id, targetStatus |-> status, hasModel |-> hasModel,
   name |-> name, version |-> version]

V1 == <<"1">>

V2 == <<"2","0","2","4">>

GptUpper == <<"G","P","T","-","4","o">>

ResGpt4o == Resource("d1", "RUNNING", TRUE, Gpt4o, V1)

ResHaikuStopped == Resource("d2", "STOPPED", TRUE, Claude3Haiku, V1)

ResNoVersion == Resource("d3", "RUNNING", TRUE, Gpt4o, Absent)

ResNoModel == Resource("d4", "RUNNING", FALSE, Absent, Absent)

ResSonnet == Resource("d5", "RUNNING", TRUE, Claude35Sonnet, V2)

ResOther == Resource("d6", "RUNNING", TRUE, OtherModel, V1)

ResGptUpper == Resource("d7", "RUNNING", TRUE, GptUpper, V2)

ResNoName == Resource("d8", "RUNNING", TRUE, <<>>, V1)

\* the bodies the listing endpoint answers with
Listings ==
  { <<ResNoVersion, ResHaikuStopped, ResGpt4o, ResNoModel,
      ResSonnet, ResNoName, ResOther, ResGptUpper>>,
    <<>> }

\* .filter(targetStatus === "RUNNING").map(...).filter(d !== null)
MapRow(d) ==
  IF ~d.hasModel \/ Falsy(d.name) \/ Falsy(d.version) THEN Null
  ELSE [id |-> d.id, name |-> d.name \o <<":">> \o d.version]

MapRows(rows) == [i \in 1..Len(rows) |-> MapRow(rows[i])]

IsRunning(d) == d.targetStatus = "RUNNING"

\* a variant without the first filter: entries that are not RUNNING stay
FilterDeploymentsKeepAll(resources) ==
  SelectSeq(MapRows(resources), LAMBDA d : d # Null)

\* lines 70-82: the RUNNING resources, mapped, without the rows skipped
FilterDeployments(resources) ==
  SelectSeq(MapRows(SelectSeq(resources, IsRunning)), LAMBDA d : d # Null)

\* the list getAiCoreDeployments returns when the client secret is ""
NotConfigured ==
  << [id |-> "notconfigured",
      name |-> <<"a","i","-","c","o","r","e","-","n","o","t","-",
                 "c","o","n","f","i","g","u","r","e","d">>] >>

\* the callback of find / some: base names equal
Matches(d, modelId) == BaseName(d.name) = BaseName(modelId)

\* a variant that compares the whole label with the whole model id
hasDeploymentForModelExact(deps, modelId) ==
  /\ deps.defined
  /\ \E i \in 1..Len(deps.list) : deps.list[i].name = modelId

\* this.deployments?.some(...) ?? false
hasDeploymentForModel(deps, modelId) ==
  /\ deps.defined
  /\ \E i \in 1..Len(deps.list) : Matches(deps.list[i], modelId)

\* a variant that searches from the end
RECURSIVE FindLast(_, _)
FindLast(list, modelId) ==
  IF list = <<>> THEN Null
  ELSE IF Matches(list[Len(list)], modelId) THEN list[Len(list)]
  ELSE FindLast(SubSeq(list, 1, Len(list) - 1), modelId)

\* Array.prototype.find: the first element the callback accepts, else Null
RECURSIVE Find(_, _)
Find(list, modelId) ==
  IF list = <<>> THEN Null
  ELSE IF Matches(Head(list), modelId) THEN Head(list)
  ELSE Find(Tail(list), modelId)

\* ------------------------------------------------------------------ stream text
\* The text of a response is a sequence of pieces; each piece stands for a
\* run of characters.  "data: " is two pieces of three characters, so that a
\* chunk boundary can fall inside it; the text of a JSON value is two pieces,
\* all but its last character and its last character.
NL == [k |-> "\n"]

\* a white-space character other than "\n" (a blank or "\r")
SP == [k |-> " "]

D1 == [k |-> "dat"]

D2 == [k |-> "a: "]

DONE == [k |-> "[DONE]"]

\* some other text: "event: ping", or a payload that is no JSON
TXT == [k |-> "other"]

JsonOpen(v) == [k |-> "json", v |-> v]

JsonClose == [k |-> "}"]

\* JSON.stringify(v), as the upstream writes it
JsonText(v) == <<JsonOpen(v), JsonClose>>

\* String.prototype.trim
RECURSIVE TrimLeft(_)
TrimLeft(s) == IF s # <<>> /\ Head(s) = SP THEN TrimLeft(Tail(s)) ELSE s

RECURSIVE TrimRight(_)
TrimRight(s) ==
  IF s # <<>> /\ s[Len(s)] = SP THEN TrimRight(SubSeq(s, 1, Len(s) - 1)) ELSE s

trim(s) == TrimRight(TrimLeft(s))

\* line.startsWith("data: ")
startsWithData(line) == Len(line) >= 2 /\ line[1] = D1 /\ line[2] = D2

\* line.slice(6)
slice6(line) == SubSeq(line, 3, Len(line))

SyntaxError == [error |-> "SyntaxError"]

\* JSON.parse: white space around the value is allowed, anything else that
\* is not the whole text of one value is a SyntaxError
JSONparse(text) ==
  LET t == trim(text) IN
  IF Len(t) = 2 /\ t[1].k = "json" /\ t[2] = JsonClose
  THEN [error |-> "none", data |-> t[1].v]
  ELSE SyntaxError

\* chunk.toString().split("\n"): the pieces between the newlines
RECURSIVE split(_, _)
split(text, cur) ==
  IF text = <<>> THEN <<cur>>
  ELSE IF Head(text) = NL THEN <<cur>> \o split(Tail(text), <<>>)
  ELSE split(Tail(text), Append(cur, Head(text)))

\* chunk.toString().split("\n").filter(Boolean)
LinesOf(chunk) == SelectSeq(split(chunk, <<>>), LAMBDA l : l # <<>>)

\* ------------------------------------------------------------------ events
Usage(i, o) == [type |-> "usage", inputTokens |-> i, outputTokens |-> o]

Text(t) == [type |-> "text", text |-> t]

\* obj.f is there (and not undefined)
Has(obj, f) == f \in DOMAIN obj

\* ------------------------------------------------------------------ streamCompletion
\* let usage = { input_tokens: 0, output_tokens: 0 }
AnthropicStart == [usage |-> [input_tokens |-> 0, output_tokens |-> 0]]

\* a variant whose message_delta reports the input count seen so far
AnthropicDataCumulative(st, data) ==
  IF ~Has(data, "type") THEN [st |-> st, events |-> <<>>]
  ELSE IF data.type = "message_start" THEN
    IF Has(data, "message") /\ Has(data.message, "usage")
    THEN LET u == [st.usage EXCEPT !.input_tokens = data.message.usage.input_tokens] IN
         [st |-> [st EXCEPT !.usage = u],
          events |-> <<Usage(u.input_tokens, u.output_tokens)>>]
    ELSE [st |-> st, events |-> <<>>]
  ELSE IF data.type \in {"content_block_start", "content_block_delta"} THEN
    LET f == IF data.type = "content_block_start" THEN "content_block" ELSE "delta" IN
    IF ~Has(data, f) THEN [st |-> st, events |-> <<>>]
    ELSE LET contentBlock == data[f] IN
         IF Has(contentBlock, "type") /\ contentBlock.type \in {"text", "text_delta"}
         THEN [st |-> st,
               events |-> <<Text(IF Has(contentBlock, "text") THEN contentBlock.text ELSE "")>>]
         ELSE [st |-> st, events |-> <<>>]
  ELSE IF data.type = "message_delta" THEN
    IF Has(data, "usage")
    THEN LET u == [st.usage EXCEPT !.output_tokens = data.usage.output_tokens] IN
         [st |-> [st EXCEPT !.usage = u],
          events |-> <<Usage(u.input_tokens, data.usage.output_tokens)>>]
    ELSE [st |-> st, events |-> <<>>]
  ELSE [st |-> st, events |-> <<>>]

\* lines 196-221 for one parsed frame.  A TypeError (a property of
\* undefined) is thrown before anything is assigned or yielded and is caught
\* at line 222 like a SyntaxError.
AnthropicData(st, data) ==
  IF ~Has(data, "type") THEN [st |-> st, events |-> <<>>]
  ELSE IF data.type = "message_start" THEN
    IF Has(data, "message") /\ Has(data.message, "usage")
    THEN LET u == [st.usage EXCEPT !.input_tokens = data.message.usage.input_tokens] IN
         [st |-> [st EXCEPT !.usage = u],
          events |-> <<Usage(u.input_tokens, u.output_tokens)>>]
    ELSE [st |-> st, events |-> <<>>]
  ELSE IF data.type \in {"content_block_start", "content_block_delta"} THEN
    LET f == IF data.type = "content_block_start" THEN "content_block" ELSE "delta" IN
    IF ~Has(data, f) THEN [st |-> st, events |-> <<>>]
    ELSE LET contentBlock == data[f] IN
         IF Has(contentBlock, "type") /\ contentBlock.type \in {"text", "text_delta"}
         THEN [st |-> st,
               events |-> <<Text(IF Has(contentBlock, "text") THEN contentBlock.text ELSE "")>>]
         ELSE [st |-> st, events |-> <<>>]
  ELSE IF data.type = "message_delta" THEN
    IF Has(data, "usage")
    THEN LET u == [st.usage EXCEPT !.output_tokens = data.usage.output_tokens] IN
         [st |-> [st EXCEPT !.usage = u],
          events |-> <<Usage(0, data.usage.output_tokens)>>]
    ELSE [st |-> st, events |-> <<>>]
  ELSE [st |-> st, events |-> <<>>]

\* a variant that ends the stream at a line JSON.parse rejects
AnthropicLineAbortOnError(st, line) ==
  IF ~startsWithData(line) THEN [st |-> st, events |-> <<>>, done |-> FALSE]
  ELSE LET parsed == JSONparse(slice6(line)) IN
       IF parsed = SyntaxError THEN [st |-> st, events |-> <<>>, done |-> TRUE]
       ELSE LET r == AnthropicData(st, parsed.data) IN
            [st |-> r.st, events |-> r.events, done |-> FALSE]

\* lines 191-225: the body of the loop over the lines, for one line
AnthropicLine(st, line) ==
  IF ~startsWithData(line) THEN [st |-> st, events |-> <<>>, done |-> FALSE]
  ELSE LET parsed == JSONparse(slice6(line)) IN
       IF parsed = SyntaxError THEN [st |-> st, events |-> <<>>, done |-> FALSE]
       ELSE LET r == AnthropicData(st, parsed.data) IN
            [st |-> r.st, events |-> r.events, done |-> FALSE]

\* ------------------------------------------------------------------ streamCompletionGPT
\* let currentContent = "", inputTokens = 0, outputTokens = 0; the
\* concatenation currentContent is kept as the list of its parts
GptStart == [currentContent |-> <<>>, inputTokens |-> 0, outputTokens |-> 0]

\* a variant that takes a missing count as 0
OrPreviousReset(obj, f, previous) ==
  IF Has(obj, f) THEN obj[f] ELSE 0

\* x || previous, for a count that may be missing: undefined and 0 are falsy
OrPrevious(obj, f, previous) ==
  IF Has(obj, f) /\ obj[f] # 0 THEN obj[f] ELSE previous

\* lines 262-271: the text of the first choice
GptText(st, data) ==
  IF Has(data, "choices") /\ Len(data.choices) > 0
     /\ Has(data.choices[1], "delta") /\ Has(data.choices[1].delta, "content")
     /\ data.choices[1].delta.content # ""
  THEN [st |-> [st EXCEPT !.currentContent = Append(@, data.choices[1].delta.content)],
        events |-> <<Text(data.choices[1].delta.content)>>]
  ELSE [st |-> st, events |-> <<>>]

\* lines 274-282: the usage object
GptUsage(st, data) ==
  IF Has(data, "usage")
  THEN LET i == OrPrevious(data.usage, "prompt_tokens", st.inputTokens)
           o == OrPrevious(data.usage, "completion_tokens", st.outputTokens) IN
       [st |-> [st EXCEPT !.inputTokens = i, !.outputTokens = o],
        events |-> <<Usage(i, o)>>]
  ELSE [st |-> st, events |-> <<>>]

\* lines 284-293: the flush at finish_reason "stop"; data.choices[0] of an
\* empty array is undefined and reading its finish_reason throws, after the
\* events above were yielded
GptStop(st, data) ==
  IF Has(data, "choices") /\ Len(data.choices) > 0
     /\ Has(data.choices[1], "finish_reason")
     /\ data.choices[1].finish_reason = "stop"
     /\ ~Has(data, "usage")
  THEN <<Usage(st.inputTokens, st.outputTokens)>>
  ELSE <<>>

\* lines 262-293 for one parsed frame
GptData(st, data) ==
  LET t == GptText(st, data)
      u == GptUsage(t.st, data) IN
  [st |-> u.st, events |-> t.events \o u.events \o GptStop(u.st, data)]

\* a variant without the return at the sentinel
GptLineNoReturn(st, line) ==
  IF trim(line) = <<D1, D2, DONE>>
  THEN [st |-> st, events |-> <<Usage(st.inputTokens, st.outputTokens)>>, done |-> FALSE]
  ELSE IF ~startsWithData(line) THEN [st |-> st, events |-> <<>>, done |-> FALSE]
  ELSE LET parsed == JSONparse(slice6(line)) IN
       IF parsed = SyntaxError THEN [st |-> st, events |-> <<>>, done |-> FALSE]
       ELSE LET r == GptData(st, parsed.data) IN
            [st |-> r.st, events |-> r.events, done |-> FALSE]

\* lines 246-297: the body of the loop over the lines, for one line; done
\* is the return at the sentinel
GptLine(st, line) ==
  IF trim(line) = <<D1, D2, DONE>>
  THEN [st |-> st, events |-> <<Usage(st.inputTokens, st.outputTokens)>>, done |-> TRUE]
  ELSE IF ~startsWithData(line) THEN [st |-> st, events |-> <<>>, done |-> FALSE]
  ELSE LET parsed == JSONparse(slice6(line)) IN
       IF parsed = SyntaxError THEN [st |-> st, events |-> <<>>, done |-> FALSE]
       ELSE LET r == GptData(st, parsed.data) IN
            [st |-> r.st, events |-> r.events, done |-> FALSE]

\* the parser a response is given to (lines 170-174)
ParserStart(kind) == IF kind = "gpt" THEN GptStart ELSE AnthropicStart

ParseLine(kind, st, line) ==
  IF kind = "gpt" THEN GptLine(st, line) ELSE AnthropicLine(st, line)

\* ------------------------------------------------------------------ frames
MsgStart == [type |-> "message_start", message |-> [usage |-> [input_tokens |-> 10]]]

CbStartText == [type |-> "content_block_start", content_block |-> [type |-> "text", text |-> ""]]

CbStartTool == [type |-> "content_block_start", content_block |-> [type |-> "tool_use"]]

CbDelta == [type |-> "content_block_delta", delta |-> [type |-> "text_delta", text |-> "hi"]]

MsgDelta == [type |-> "message_delta", usage |-> [output_tokens |-> 3]]

Ping == [type |-> "ping"]

GptDelta == [choices |-> <<[delta |-> [content |-> "hi"]]>>]

GptStopFrame == [choices |-> <<[finish_reason |-> "stop"]>>]

GptUsageFull == [choices |-> <<>>, usage |-> [prompt_tokens |-> 5, completion_tokens |-> 2]]

GptUsagePartial == [usage |-> [completion_tokens |-> 7]]

GptUsageZero == [usage |-> [prompt_tokens |-> 0, completion_tokens |-> 1]]

\* the line "data: <JSON of v>"
DataLine(v) == <<D1, D2>> \o JsonText(v)

\* "data: " followed by text that is no JSON
BadLine == <<D1, D2, TXT>>

DoneLine == <<D1, D2, DONE>>

\* the sentinel of an upstream that ends its lines with "\r\n"
DoneLineCR == <<D1, D2, DONE, SP>>

AnthropicFrames == {MsgStart, CbStartText, CbStartTool, CbDelta, MsgDelta, Ping}

GptFrames == {GptDelta, GptStopFrame, GptUsageFull, GptUsagePartial, GptUsageZero}

\* the lines an upstream of either format sends
LinesSent(kind) ==
  IF kind = "gpt"
  THEN {DataLine(f) : f \in GptFrames} \cup {BadLine, DoneLine, DoneLineCR}
  ELSE {DataLine(f) : f \in AnthropicFrames} \cup {BadLine}

\* ------------------------------------------------------------------ state
VARIABLES
  options,      \* the ApiHandlerOptions given to the constructor
  token,        \* this.token: Undefined or the Token of one response
  deployments,  \* this.deployments: NoDeployments or Fetched(list)
  now,          \* Date.now(), in milliseconds
  calls,        \* per createMessage call: where it waits, and its locals
  pKind,        \* a parser on its own: "anthropic" (streamCompletion) or "gpt"
  pPc,          \* "streaming", "ended", "closed" (return) or "failed" (throw)
  pSent,        \* the lines the upstream has sent or begun to send
  pChunk,       \* the chunk the transport is assembling
  pTail,        \* the rest of the line a chunk boundary has cut
  pCuts,        \* chunk boundaries that fell inside a line
  pLines,       \* the lines of the current chunk not yet handled
  pRead,        \* the lines handled so far
  pSt,          \* the parser's locals
  pOut,         \* the events yielded so far: for each line handled, in
                \* order, the events its handling yielded
  rsModelId,    \* getDeploymentForModel on its own: its argument
  rsCache,      \* this.deployments
  rsResult      \* what the call returned or threw

mainVars == <<options, token, deployments, now, calls>>

parseVars == <<pKind, pPc, pSent, pChunk, pTail, pCuts, pLines, pRead, pSt, pOut>>

resolveVars == <<rsModelId, rsCache, rsResult>>

vars == <<options, token, deployments, now, calls,
          pKind, pPc, pSent, pChunk, pTail, pCuts, pLines, pRead, pSt, pOut,
          rsModelId, rsCache, rsResult>>

Calls == 1..MaxCalls

\* line 41: expires_in is in seconds, Date.now() in milliseconds
MsPerSecond == 1000

\* the clock is read at steps of the longest life of a token: a token is
\* then past its expiry, or exactly at it
TickMs == MaxExpiresIn * MsPerSecond

\* expires_in values (seconds) the token endpoint answers with
ExpiresIn == {1, MaxExpiresIn}

\* the configurations of the handler
Options ==
  { [apiModelId |-> Gpt4o, sapAiCoreClientSecretEmpty |-> FALSE],
    [apiModelId |-> OtherModel, sapAiCoreClientSecretEmpty |-> FALSE],
    [apiModelId |-> UnknownModel, sapAiCoreClientSecretEmpty |-> FALSE],
    [apiModelId |-> Gpt4o, sapAiCoreClientSecretEmpty |-> TRUE] }

NoError == [msg |-> "none"]

NoResponse == [none |-> TRUE]

\* a call that has not been made yet
IdleCall ==
  [pc |-> "idle",          \* the await the call is suspended at
   caller |-> "-",         \* who awaits getToken: createMessage or getAiCoreDeployments
   response |-> NoResponse,\* response.data of the token call, and the
                           \* Date.now() authenticate() read when it came
   retv |-> 0,             \* the value getToken() resolved with
   resources |-> <<>>,     \* response.data.resources of the listing GET
   list |-> <<>>,          \* the list getAiCoreDeployments() resolved with
   deploymentId |-> "",
   err |-> NoError,        \* the error the call ended with
   nAuth |-> 0,            \* token POSTs issued
   nRefresh |-> 0,         \* getAiCoreDeployments invocations
   nList |-> 0,            \* listing GETs issued
   nPost |-> 0,            \* inference POSTs issued
   kind |-> "-",           \* the parser the response is given to
   stream |-> <<>>,        \* the chunks of the response not yet read
   st |-> NoResponse,      \* the parser's locals
   events |-> <<>>]        \* the events yielded to the consumer

\* a chunk with nothing in it yet: its text, the whole lines in it, and
\* whether a cut line has ended it
NoChunk == [text |-> <<>>, lines |-> 0, full |-> FALSE]

ParserOff ==
  /\ pKind = "-"
  /\ pPc = "off"
  /\ pSent = <<>>
  /\ pChunk = NoChunk
  /\ pTail = <<>>
  /\ pCuts = 0
  /\ pLines = <<>>
  /\ pRead = <<>>
  /\ pSt = NoResponse
  /\ pOut = <<>>

ResolverOff ==
  /\ rsModelId = Absent
  /\ rsCache = NoDeployments
  /\ rsResult = NoResponse

HandlerOff ==
  /\ options = [apiModelId |-> Absent, sapAiCoreClientSecretEmpty |-> FALSE]
  /\ token = Undefined
  /\ deployments = NoDeployments
  /\ now = 0
  /\ calls = [c \in Calls |-> IdleCall]

Init ==
  /\ options \in Options
  /\ token = Undefined
  /\ deployments = NoDeployments
  /\ now = 0
  /\ calls = [c \in Calls |-> IdleCall]
  /\ ParserOff
  /\ ResolverOff

\* the pending promise reactions run before the event loop hands over the
\* next response: a call is inside a turn while it waits for no request
MicroPcs == {"gt_authret", "gt_ret", "ad_ret", "gd_ret"}

Quiet == \A b \in Calls : calls[b].pc \notin MicroPcs

\* ------------------------------------------------------------------ getToken
\* a variant with the comparison turned round
TokenStaleInverted(tok, t) == tok = Undefined \/ tok.exipres_at > t

\* !this.token || this.token.exipres_at < Date.now()
TokenStale(tok, t) == tok = Undefined \/ tok.exipres_at < t

\* a variant that adds expires_in as milliseconds
authenticateNoMs(data, t) ==
  [access_token |-> data.access_token, expires_in |-> data.expires_in,
   exipres_at |-> t + data.expires_in]

\* authenticate(), after the POST answered with data at time t
authenticate(data, t) ==
  [access_token |-> data.access_token, expires_in |-> data.expires_in,
   exipres_at |-> t + data.expires_in * MsPerSecond]

\* a call ends: the consumer gets the error (or the end of the sequence),
\* the locals of the call are gone
Finish(r, err) == [IdleCall EXCEPT !.pc = "done", !.err = err]

Throw(r, msg, model) == Finish(r, [msg |-> msg, model |-> model])

\* getToken() is entered, on behalf of who: it runs to its first await, the
\* token POST, or returns the cached access token
EnterGetToken(r, who) ==
  IF TokenStale(token, now)
  THEN [r EXCEPT !.pc = "gt_auth", !.caller = who, !.nAuth = @ + 1]
  ELSE [r EXCEPT !.pc = "gt_ret", !.caller = who, !.retv = token.access_token]

\* the consumer's first next(), in a turn of its own: createMessage runs to
\* `await this.getToken()`; the calls are numbered in the order they begin
Start(c) ==
  /\ Quiet
  /\ calls[c].pc = "idle"
  /\ \A b \in Calls : b < c => calls[b].pc # "idle"
  /\ calls' = [calls EXCEPT ![c] = EnterGetToken(@, "cm")]
  /\ UNCHANGED <<options, token, deployments, now>>
  /\ UNCHANGED parseVars
  /\ UNCHANGED resolveVars

\* the access token of the k-th token response to call c: the endpoint
\* never hands out the same token twice
AccessToken(c, k) == 10 * c + k

\* the token POST answers: authenticate() reads the clock and resolves
AuthRespond(c) ==
  /\ Quiet
  /\ calls[c].pc = "gt_auth"
  /\ \E e \in ExpiresIn :
       LET data == [access_token |-> AccessToken(c, calls[c].nAuth),
                    expires_in |-> e] IN
       calls' = [calls EXCEPT ![c].pc = "gt_authret",
                              ![c].response = [data |-> data, at |-> now]]
  /\ UNCHANGED <<options, token, deployments, now>>
  /\ UNCHANGED parseVars
  /\ UNCHANGED resolveVars

\* the token POST fails: getToken and createMessage reject with that error
AuthFail(c) ==
  /\ Quiet
  /\ calls[c].pc = "gt_auth"
  /\ calls' = [calls EXCEPT ![c] = Throw(@, "authentication error", Absent)]
  /\ UNCHANGED <<options, token, deployments, now>>
  /\ UNCHANGED parseVars
  /\ UNCHANGED resolveVars

\* getToken resumes: this.token = <the Token>; return this.token.access_token
GetTokenResume(c) ==
  /\ calls[c].pc = "gt_authret"
  /\ token' = authenticate(calls[c].response.data, calls[c].response.at)
  /\ calls' = [calls EXCEPT ![c].pc = "gt_ret", ![c].retv = token'.access_token,
                            ![c].response = NoResponse]
  /\ UNCHANGED <<options, deployments, now>>
  /\ UNCHANGED parseVars
  /\ UNCHANGED resolveVars

\* ------------------------------------------------------------------ deployments
\* model.id in createMessage: getModel() reads only the options
ModelId == getModel(options.apiModelId)

NoDeploymentMsg == "No running deployment found for model"

\* a variant that searches the list the cache held before the assignment
FinishGetDeploymentStale(r, list) ==
  LET deployment == Find(deployments.list, ModelId) IN
  IF deployment = Null
  THEN Throw(r, NoDeploymentMsg, ModelId)
  ELSE [r EXCEPT !.pc = "gd_ret", !.deploymentId = deployment.id]

\* lines 95-105: find, then return the id or throw
FinishGetDeployment(r, list) ==
  LET deployment == Find(list, ModelId) IN
  IF deployment = Null
  THEN Throw(r, NoDeploymentMsg, ModelId)
  ELSE [r EXCEPT !.pc = "gd_ret", !.deploymentId = deployment.id]

\* getAiCoreDeployments() is entered: the placeholder list without any
\* request when the client secret is "", else on to getToken
EnterGetAiCoreDeployments(r) ==
  IF options.sapAiCoreClientSecretEmpty
  THEN [r EXCEPT !.pc = "ad_ret", !.list = NotConfigured, !.nRefresh = @ + 1]
  ELSE EnterGetToken([r EXCEPT !.nRefresh = @ + 1], "ad")

\* a variant that refreshes only when there is no list at all
EnterGetDeploymentForModelKeepMiss(r) ==
  IF ~deployments.defined
  THEN EnterGetAiCoreDeployments(r)
  ELSE FinishGetDeployment(r, deployments.list)

\* getDeploymentForModel(model.id) is entered
EnterGetDeploymentForModel(r) ==
  IF ~deployments.defined \/ ~hasDeploymentForModel(deployments, ModelId)
  THEN EnterGetAiCoreDeployments(r)
  ELSE FinishGetDeployment(r, deployments.list)

\* ------------------------------------------------------------------ dispatch
\* lines 123-168: pick the family, POST, or throw
Dispatch(r) ==
  IF ModelId \in anthropicModels \/ ModelId \in openAIModels
  THEN [r EXCEPT !.pc = "cm_post", !.nPost = @ + 1]
  ELSE Throw(r, "Unsupported model", ModelId)

\* a variant that goes on to the request without resolving the deployment
CmAfterTokenNoResolve(c) ==
  /\ calls[c].pc = "gt_ret"
  /\ calls[c].caller = "cm"
  /\ calls' = [calls EXCEPT ![c] = Dispatch([@ EXCEPT !.retv = 0])]
  /\ UNCHANGED <<options, token, deployments, now>>
  /\ UNCHANGED parseVars
  /\ UNCHANGED resolveVars

\* createMessage resumes with the token (from here on only a header of its
\* request): getModel(), then getDeploymentForModel up to its first await
CmAfterToken(c) ==
  /\ calls[c].pc = "gt_ret"
  /\ calls[c].caller = "cm"
  /\ calls' = [calls EXCEPT ![c] =
        EnterGetDeploymentForModel(
          [@ EXCEPT !.retv = 0])]
  /\ UNCHANGED <<options, token, deployments, now>>
  /\ UNCHANGED parseVars
  /\ UNCHANGED resolveVars

\* getAiCoreDeployments resumes with the token and issues the listing GET
\* (the token is only a header of that request)
AdAfterToken(c) ==
  /\ calls[c].pc = "gt_ret"
  /\ calls[c].caller = "ad"
  /\ calls' = [calls EXCEPT ![c].pc = "ad_get", ![c].retv = 0,
                            ![c].nList = @ + 1]
  /\ UNCHANGED <<options, token, deployments, now>>
  /\ UNCHANGED parseVars
  /\ UNCHANGED resolveVars

\* the listing GET answers: filter, map, filter, resolve
ListRespond(c) ==
  /\ Quiet
  /\ calls[c].pc = "ad_get"
  /\ \E resources \in Listings :
       calls' = [calls EXCEPT ![c].pc = "ad_ret", ![c].resources = resources,
                              ![c].list = FilterDeployments(resources)]
  /\ UNCHANGED <<options, token, deployments, now>>
  /\ UNCHANGED parseVars
  /\ UNCHANGED resolveVars

\* a variant that drops the cached list when the listing fails
ListFailClearsCache(c) ==
  /\ Quiet
  /\ calls[c].pc = "ad_get"
  /\ calls' = [calls EXCEPT ![c] = Throw(@, "Failed to fetch deployments", Absent)]
  /\ deployments' = NoDeployments
  /\ UNCHANGED <<options, token, now>>
  /\ UNCHANGED parseVars
  /\ UNCHANGED resolveVars

\* the listing GET fails: caught and rethrown
ListFail(c) ==
  /\ Quiet
  /\ calls[c].pc = "ad_get"
  /\ calls' = [calls EXCEPT ![c] = Throw(@, "Failed to fetch deployments", Absent)]
  /\ UNCHANGED <<options, token, deployments, now>>
  /\ UNCHANGED parseVars
  /\ UNCHANGED resolveVars

\* getDeploymentForModel resumes: this.deployments = <the list>; find
GdAfterList(c) ==
  /\ calls[c].pc = "ad_ret"
  /\ deployments' = Fetched(calls[c].list)
  /\ calls' = [calls EXCEPT ![c] =
        FinishGetDeployment([@ EXCEPT !.list = <<>>, !.resources = <<>>],
                            deployments'.list)]
  /\ UNCHANGED <<options, token, now>>
  /\ UNCHANGED parseVars
  /\ UNCHANGED resolveVars

\* createMessage resumes with the deployment id
CmAfterDeployment(c) ==
  /\ calls[c].pc = "gd_ret"
  /\ calls' = [calls EXCEPT ![c] = Dispatch(@)]
  /\ UNCHANGED <<options, token, deployments, now>>
  /\ UNCHANGED parseVars
  /\ UNCHANGED resolveVars

\* the inference POST fails: caught, rethrown as "Failed to create message"
PostFail(c) ==
  /\ Quiet
  /\ calls[c].pc = "cm_post"
  /\ calls' = [calls EXCEPT ![c] = Throw(@, "Failed to create message", Absent)]
  /\ UNCHANGED <<options, token, deployments, now>>
  /\ UNCHANGED parseVars
  /\ UNCHANGED resolveVars

\* ------------------------------------------------------------------ response
\* the loop over the lines of one chunk; done is the return at the sentinel
RECURSIVE ParseLines(_, _, _)
ParseLines(kind, st, lines) ==
  IF lines = <<>> THEN [st |-> st, events |-> <<>>, done |-> FALSE]
  ELSE LET r == ParseLine(kind, st, Head(lines)) IN
       IF r.done THEN r
       ELSE LET rest == ParseLines(kind, r.st, Tail(lines)) IN
            [st |-> rest.st, events |-> r.events \o rest.events, done |-> rest.done]

\* the response bodies, as the chunks the transport delivers
AnthropicBody ==
  << DataLine(MsgStart) \o <<NL>> \o DataLine(CbDelta) \o <<NL>> >>

GptBody ==
  << DataLine(GptDelta) \o <<NL>> \o DoneLine \o <<NL>> >>

ResponseBodies(kind) == IF kind = "gpt" THEN {GptBody} ELSE {AnthropicBody}

\* the inference POST answers with the response stream: yield* the parser
PostRespond(c) ==
  /\ Quiet
  /\ calls[c].pc = "cm_post"
  /\ LET kind == IF ModelId \in openAIModels THEN "gpt" ELSE "anthropic" IN
     \E body \in ResponseBodies(kind) :
       calls' = [calls EXCEPT ![c].pc = "stream", ![c].kind = kind,
                              ![c].stream = body, ![c].st = ParserStart(kind)]
  /\ UNCHANGED <<options, token, deployments, now>>
  /\ UNCHANGED parseVars
  /\ UNCHANGED resolveVars

\* the next chunk arrives and its lines are handled
StreamChunk(c) ==
  /\ Quiet
  /\ calls[c].pc = "stream"
  /\ calls[c].stream # <<>>
  /\ LET r == ParseLines(calls[c].kind, calls[c].st, LinesOf(Head(calls[c].stream))) IN
     calls' = [calls EXCEPT ![c] =
        IF r.done THEN Finish(@, NoError)
        ELSE [@ EXCEPT !.stream = Tail(@), !.st = r.st,
                       !.events = @ \o r.events]]
  /\ UNCHANGED <<options, token, deployments, now>>
  /\ UNCHANGED parseVars
  /\ UNCHANGED resolveVars

\* the response ends: the generator is finished
StreamEnd(c) ==
  /\ Quiet
  /\ calls[c].pc = "stream"
  /\ calls[c].stream = <<>>
  /\ calls' = [calls EXCEPT ![c] = Finish(@, NoError)]
  /\ UNCHANGED <<options, token, deployments, now>>
  /\ UNCHANGED parseVars
  /\ UNCHANGED resolveVars

\* a variant that swallows the failure: the sequence just ends
StreamFailSwallowed(c) ==
  /\ Quiet
  /\ calls[c].pc = "stream"
  /\ calls' = [calls EXCEPT ![c] = Finish(@, NoError)]
  /\ UNCHANGED <<options, token, deployments, now>>
  /\ UNCHANGED parseVars
  /\ UNCHANGED resolveVars

\* the transport fails in mid-stream: rethrown by the parser, caught at
\* line 175 and rethrown as "Failed to create message"
StreamFail(c) ==
  /\ Quiet
  /\ calls[c].pc = "stream"
  /\ calls' = [calls EXCEPT ![c] = Throw(@, "Failed to create message", Absent)]
  /\ UNCHANGED <<options, token, deployments, now>>
  /\ UNCHANGED parseVars
  /\ UNCHANGED resolveVars

\* the wall clock advances
Tick ==
  /\ now < MaxTicks * TickMs
  /\ now' = now + TickMs
  /\ UNCHANGED <<options, token, deployments, calls>>
  /\ UNCHANGED parseVars
  /\ UNCHANGED resolveVars

Next ==
  \/ Tick
  \/ \E c \in Calls :
       \/ Start(c)
       \/ AuthRespond(c)
       \/ AuthFail(c)
       \/ GetTokenResume(c)
       \/ CmAfterToken(c)
       \/ AdAfterToken(c)
       \/ ListRespond(c)
       \/ ListFail(c)
       \/ GdAfterList(c)
       \/ CmAfterDeployment(c)
       \/ PostRespond(c)
       \/ PostFail(c)
       \/ StreamChunk(c)
       \/ StreamEnd(c)
       \/ StreamFail(c)

Spec == Init /\ [][Next]_vars

\* ------------------------------------------------------------------ properties of the handler
Supported == anthropicModels \cup openAIModels

\* C1: a createMessage call whose model id is in neither list issues no
\* request of any kind (token POST, listing GET, inference POST) and ends
\* with the "Unsupported model" error
C1_UnsupportedBeforeNetwork ==
  ModelId \notin Supported =>
    \A c \in Calls :
      /\ calls[c].nAuth = 0 /\ calls[c].nList = 0 /\ calls[c].nPost = 0
      /\ calls[c].pc \in {"idle", "done"}
      /\ calls[c].pc = "done" =>
           calls[c].err = [msg |-> "Unsupported model", model |-> ModelId]

\* the step in which call c enters getToken: from createMessage (line 113)
\* or from getAiCoreDeployments (line 57)
GetTokenEntered(c) ==
  \/ calls[c].pc = "idle" /\ calls'[c].pc # "idle"
  \/ /\ calls[c].pc = "gt_ret" /\ calls[c].caller = "cm"
     /\ calls'[c].nRefresh = calls[c].nRefresh + 1
     /\ ~options.sapAiCoreClientSecretEmpty

\* C2: getToken entered while the cached token's expiry is in the future
\* issues no token POST, returns the cached access token and leaves the
\* cached token as it is
C2_CachedTokenReused ==
  [][\A c \in Calls :
       (GetTokenEntered(c) /\ token # Undefined /\ token.exipres_at > now) =>
         /\ calls'[c].pc = "gt_ret"
         /\ calls'[c].retv = token.access_token
         /\ calls'[c].nAuth = calls[c].nAuth
         /\ token' = token]_vars

\* a call that took its token from the cache, a token another call obtained
C2_Witness ==
  \E c \in Calls :
    /\ calls[c].pc = "gt_ret" /\ calls[c].nAuth = 0
    /\ token # Undefined /\ token.exipres_at > now
    /\ calls[c].retv = token.access_token
    /\ token.access_token # AccessToken(c, 1)

\* C3: getToken entered with no token cached or with one whose expiry has
\* passed issues one token POST, none more until it returns, returns the
\* access token of that response and replaces the cached token by the
\* response, its expiry the time of the response plus expires_in seconds
C3_StaleTokenRefreshed ==
  [][\A c \in Calls :
       /\ (GetTokenEntered(c) /\ (token = Undefined \/ token.exipres_at < now)) =>
            /\ calls'[c].pc = "gt_auth"
            /\ calls'[c].nAuth = calls[c].nAuth + 1
            /\ token' = token
       /\ calls[c].pc = "gt_auth" =>
            /\ calls'[c].pc \in {"gt_auth", "gt_authret", "done"}
            /\ calls'[c].pc # "done" => calls'[c].nAuth = calls[c].nAuth
       /\ (calls[c].pc = "gt_authret" /\ calls'[c] # calls[c]) =>
            LET data == calls[c].response.data IN
            /\ calls'[c].pc = "gt_ret"
            /\ calls'[c].nAuth = calls[c].nAuth
            /\ calls'[c].retv = data.access_token
            /\ token' = [access_token |-> data.access_token,
                         expires_in |-> data.expires_in,
                         exipres_at |-> calls[c].response.at + data.expires_in * 1000]]_vars

\* a call whose first getToken found no usable token and whose second found
\* the token of the first expired: it returns the token of its second POST
C3_Witness ==
  \E c \in Calls :
    /\ calls[c].pc = "gt_ret" /\ calls[c].caller = "ad"
    /\ calls[c].nAuth = 2
    /\ calls[c].retv = AccessToken(c, 2)
    /\ token.access_token = calls[c].retv
    /\ token.exipres_at = now + token.expires_in * 1000

\* label and modelId have the same base name: the text before the first
\* ":", letter case ignored
SameBaseName(label, modelId) ==
  toLowerCase(SplitColon0(label)) = toLowerCase(SplitColon0(modelId))

HasMatch(list, modelId) ==
  \E i \in 1..Len(list) : SameBaseName(list[i].name, modelId)

\* C4: getDeploymentForModel entered with a cache that holds no match (none
\* at all, or one an earlier miss left) refreshes the list, once; when the
\* refreshed list holds no match either the call ends with the "No running
\* deployment found" error that names the model
C4_MissRefreshesOnce ==
  [][\A c \in Calls :
       /\ calls'[c].nRefresh <= 1
       /\ ( /\ calls[c].pc = "gt_ret" /\ calls[c].caller = "cm"
            /\ calls'[c] # calls[c]
            /\ ~deployments.defined \/ ~HasMatch(deployments.list, ModelId) ) =>
            /\ calls[c].nRefresh = 0
            /\ calls'[c].nRefresh = 1
            /\ calls'[c].pc \in {"gt_auth", "gt_ret", "ad_ret"}
       /\ ( /\ calls[c].pc = "ad_ret"
            /\ calls'[c] # calls[c]
            /\ ~HasMatch(calls[c].list, ModelId) ) =>
            /\ calls[c].nRefresh = 1
            /\ calls'[c].pc = "done"
            /\ calls'[c].err = [msg |-> NoDeploymentMsg, model |-> ModelId]]_vars

\* two calls have ended with the miss, the cache holds the list without a
\* match that the refresh brought
C4_Witness ==
  /\ deployments.defined
  /\ ~HasMatch(deployments.list, ModelId)
  /\ \A c \in Calls :
       calls[c].pc = "done" /\ calls[c].err = [msg |-> NoDeploymentMsg, model |-> ModelId]

\* a resource carries a model name and a model version
CarriesModel(d) ==
  /\ d.hasModel
  /\ d.name \notin {Absent, <<>>}
  /\ d.version \notin {Absent, <<>>}

\* the RUNNING resources that carry name and version, in listing order, each
\* as {id, "name:version"}
ListedRunning(resources) ==
  LET keep == SelectSeq(resources,
                LAMBDA d : d.targetStatus = "RUNNING" /\ CarriesModel(d)) IN
  [i \in 1..Len(keep) |->
     [id |-> keep[i].id, name |-> keep[i].name \o <<":">> \o keep[i].version]]

\* C6 as stated: after a refresh that succeeded, the cache is exactly the
\* listed entries that are RUNNING and carry name and version, in listing
\* order, each labelled name:version
C6_CacheIsListedRunning ==
  [][\A c \in Calls :
       (calls[c].pc = "ad_ret" /\ calls'[c] # calls[c]) =>
         /\ deployments'.defined
         /\ deployments'.list = ListedRunning(calls[c].resources)]_vars

\* C6: after a refresh that succeeded with a client secret other than "",
\* the cache is exactly the listed entries that are RUNNING and carry name
\* and version, in listing order, each labelled name:version; with the
\* client secret "" nothing is listed and the cache is the one placeholder
\* entry {notconfigured, ai-core-not-configured}
C6_CacheIsListedRunningOrPlaceholder ==
  [][\A c \in Calls :
       (calls[c].pc = "ad_ret" /\ calls'[c] # calls[c]) =>
         /\ deployments'.defined
         /\ deployments'.list =
              IF options.sapAiCoreClientSecretEmpty
              THEN NotConfigured
              ELSE ListedRunning(calls[c].resources)]_vars

\* the cache after a listing with entries to drop and entries to keep
C6_Witness ==
  /\ deployments.defined
  /\ ~options.sapAiCoreClientSecretEmpty
  /\ Len(deployments.list) = 4
  /\ deployments.list[1] = [id |-> "d1", name |-> Gpt4o \o <<":">> \o V1]

\* C11: whatever the interleaving of overlapping calls, the cached token
\* only ever becomes one whole token response (its access token with the
\* expiry computed from that same response), the cached list only ever
\* becomes one whole result of getAiCoreDeployments, getToken returns the
\* access token of the token cached when it returns and
\* getDeploymentForModel the id of a matching entry of the list cached when
\* it returns
C11_CachesNeverCorrupted ==
  [][/\ token' # token =>
          \E c \in Calls :
            /\ calls[c].pc = "gt_authret"
            /\ LET data == calls[c].response.data IN
               /\ token' = [access_token |-> data.access_token,
                            expires_in |-> data.expires_in,
                            exipres_at |-> calls[c].response.at + data.expires_in * 1000]
               /\ calls'[c].retv = data.access_token
     /\ deployments' # deployments =>
          \E c \in Calls :
            /\ calls[c].pc = "ad_ret"
            /\ deployments' = Fetched(calls[c].list)
            /\ calls[c].list = IF options.sapAiCoreClientSecretEmpty
                               THEN NotConfigured
                               ELSE ListedRunning(calls[c].resources)
     /\ \A c \in Calls :
          /\ ( /\ calls'[c].pc = "gt_ret"
               /\ calls[c].pc # "gt_ret" \/ calls'[c].caller # calls[c].caller ) =>
               /\ token' # Undefined
               /\ calls'[c].retv = token'.access_token
          /\ (calls'[c].pc = "gd_ret" /\ calls[c].pc # "gd_ret") =>
               /\ deployments'.defined
               /\ \E i \in 1..Len(deployments'.list) :
                    /\ deployments'.list[i].id = calls'[c].deploymentId
                    /\ SameBaseName(deployments'.list[i].name, ModelId)]_vars

\* two overlapping calls have each authenticated and each listed; the
\* cached token is the response to the call that began first, which came
\* last, and both calls have gone on to their inference POST
C11_Witness ==
  /\ \A c \in Calls :
       calls[c].pc = "cm_post" /\ calls[c].nAuth = 1 /\ calls[c].nList = 1
  /\ token # Undefined /\ token.access_token = AccessToken(1, 1)
  /\ deployments.defined

\* the error a call ended with
Failed(c, msg) == calls'[c].pc = "done" /\ calls'[c].err = [msg |-> msg, model |-> Absent]

\* the next chunk of the response holds the sentinel at which the parser
\* returns
ClosesAtNextChunk(r) ==
  /\ r.stream # <<>>
  /\ ParseLines(r.kind, r.st, LinesOf(Head(r.stream))).done

\* C12: a request of a call that does not answer ends the call with an
\* error for the caller (the token POST, the listing GET, the inference
\* POST, the response stream before its end), as does a list without a
\* match; no request is issued a second time while the call waits for it,
\* and a call that has ended issues nothing and yields nothing any more
C12_FailureEndsCall ==
  [][\A c \in Calls :
       LET before == calls[c]
           after == calls'[c] IN
       IF after.pc = before.pc
       THEN /\ after.nAuth = before.nAuth
            /\ after.nList = before.nList
            /\ after.nPost = before.nPost
            /\ Len(after.events) >= Len(before.events)
            /\ before.pc = "done" => after = before
       ELSE IF before.pc = "gt_auth"
       THEN \/ after.pc = "gt_authret" /\ after.nAuth = before.nAuth
            \/ Failed(c, "authentication error")
       ELSE IF before.pc = "ad_get"
       THEN \/ after.pc = "ad_ret" /\ after.nList = before.nList
            \/ Failed(c, "Failed to fetch deployments")
       ELSE IF before.pc = "ad_ret"
       THEN \/ after.pc = "gd_ret" /\ HasMatch(before.list, ModelId)
            \/ /\ after.pc = "done"
               /\ after.err = [msg |-> NoDeploymentMsg, model |-> ModelId]
               /\ ~HasMatch(before.list, ModelId)
       ELSE IF before.pc = "cm_post"
       THEN \/ after.pc = "stream" /\ after.nPost = before.nPost
            \/ Failed(c, "Failed to create message")
       ELSE IF before.pc = "stream"
       THEN \/ Failed(c, "Failed to create message")
            \/ /\ after.pc = "done" /\ after.err = NoError
               /\ before.stream = <<>> \/ ClosesAtNextChunk(before)
       ELSE before.pc # "done"]_vars

\* one call has ended at a listing GET that failed, the other at a failure
\* of its inference POST or of its response stream
C12_Witness ==
  /\ calls[1].pc = "done"
  /\ calls[1].err = [msg |-> "Failed to fetch deployments", model |-> Absent]
  /\ calls[2].pc = "done"
  /\ calls[2].err = [msg |-> "Failed to create message", model |-> Absent]
  /\ deployments.defined

\* where a call is in createMessage: before it, at getToken (line 113), in
\* getDeploymentForModel (line 121), with the deployment id, at the
\* inference POST (line 165), reading the response, ended
Stage(r) ==
  IF r.pc = "idle" THEN 0
  ELSE IF r.pc \in {"gt_auth", "gt_authret", "gt_ret"}
       THEN (IF r.caller = "cm" THEN 1 ELSE 2)
  ELSE IF r.pc \in {"ad_get", "ad_ret"} THEN 2
  ELSE IF r.pc = "gd_ret" THEN 3
  ELSE IF r.pc = "cm_post" THEN 4
  ELSE IF r.pc = "stream" THEN 5
  ELSE 6

\* C16: a call goes through getToken, getDeploymentForModel, the inference
\* POST and the response in that order; it issues the POST at most once,
\* only when getToken has returned to it and it holds the deployment id it
\* resolved, and not at all when it ends at an earlier step; it yields no
\* event before the POST has answered
C16_StepsInOrder ==
  [][\A c \in Calls :
       /\ calls'[c].pc # "done" =>
            calls'[c].nPost = IF calls'[c].pc \in {"cm_post", "stream"} THEN 1 ELSE 0
       /\ calls'[c].nPost > calls[c].nPost =>
            /\ calls[c].pc = "gd_ret"
            /\ calls[c].deploymentId # ""
       /\ (calls'[c].pc = "gd_ret" /\ calls[c].pc # "gd_ret") =>
            /\ calls[c].pc \in {"gt_ret", "ad_ret"}
            /\ token # Undefined
       /\ calls'[c].events # calls[c].events =>
            calls[c].pc = "stream" /\ calls[c].nPost = 1
       /\ (calls'[c].pc # calls[c].pc \/ calls'[c].caller # calls[c].caller) =>
            LET from == Stage(calls[c])
                to == Stage(calls'[c]) IN
            \/ to \in {from, from + 1, 6}
            \/ from = 1 /\ to = 3]_vars

\* a call that authenticated, listed, posted once and has yielded the
\* events of the first chunk of the response
C16_Witness ==
  \E c \in Calls :
    /\ calls[c].pc = "stream"
    /\ calls[c].nAuth = 1 /\ calls[c].nList = 1 /\ calls[c].nPost = 1
    /\ calls[c].deploymentId = "d5"
    /\ calls[c].events = <<Usage(10, 0), Text("hi")>>

\* some call has ended with the error msg
EndedWith(msg) ==
  \E b \in Calls :
    calls[b].pc = "done" /\ calls[b].err = [msg |-> msg, model |-> Absent]

\* C18: a token POST that fails leaves the cached token and the cached list
\* as they are; a listing GET that fails leaves them as they are and ends
\* the call with "Failed to fetch deployments"; a call made after such a
\* failure, the cache still without a usable token or without a match,
\* issues the token POST, or invokes the refresh of the list, again
C18_FailedRefreshKeepsCaches ==
  [][\A c \in Calls :
       /\ (calls[c].pc = "gt_auth" /\ calls'[c].pc = "done") =>
            /\ token' = token
            /\ deployments' = deployments
            /\ calls'[c].err = [msg |-> "authentication error", model |-> Absent]
       /\ (calls[c].pc = "ad_get" /\ calls'[c].pc = "done") =>
            /\ token' = token
            /\ deployments' = deployments
            /\ calls'[c].err = [msg |-> "Failed to fetch deployments", model |-> Absent]
       /\ ( /\ calls[c].pc = "idle" /\ calls'[c].pc # "idle"
            /\ EndedWith("authentication error")
            /\ token = Undefined \/ token.exipres_at < now ) =>
            /\ calls'[c].pc = "gt_auth"
            /\ calls'[c].nAuth = 1
       /\ ( /\ calls[c].pc = "gt_ret" /\ calls[c].caller = "cm"
            /\ calls'[c] # calls[c]
            /\ EndedWith("Failed to fetch deployments")
            /\ ~deployments.defined \/ ~HasMatch(deployments.list, ModelId) ) =>
            /\ calls'[c].nRefresh = 1
            /\ calls'[c].pc \in {"gt_auth", "gt_ret", "ad_ret"}]_vars

\* the first call has ended at a listing GET that failed and has left no
\* list in the cache; the second call, with the token the first one cached,
\* has issued the listing GET again
C18_Witness ==
  /\ calls[1].pc = "done"
  /\ calls[1].err = [msg |-> "Failed to fetch deployments", model |-> Absent]
  /\ deployments = NoDeployments
  /\ token # Undefined /\ token.access_token = AccessToken(1, 1)
  /\ calls[2].pc = "ad_get" /\ calls[2].nAuth = 0 /\ calls[2].nList = 1

\* ------------------------------------------------------------------ a parser on its own
\* streamCompletion or streamCompletionGPT reading a response whose lines and
\* chunk boundaries the upstream chooses as it goes
InitParse ==
  /\ HandlerOff
  /\ ResolverOff
  /\ pKind \in {"anthropic", "gpt"}
  /\ pPc = "streaming"
  /\ pSent = <<>>
  /\ pChunk = NoChunk
  /\ pTail = <<>>
  /\ pCuts = 0
  /\ pLines = <<>>
  /\ pRead = <<>>
  /\ pSt = ParserStart(pKind)
  /\ pOut = <<>>

\* the lines the parser is given: a line that a chunk boundary cuts reaches
\* it as two
LinesDelivered == Len(pSent) + pCuts

\* the transport puts a whole line, ended by "\n", into the chunk it is
\* assembling
SendLine ==
  /\ pPc = "streaming"
  /\ pLines = <<>>
  /\ pChunk.lines < MaxChunkLines
  /\ ~pChunk.full
  /\ LinesDelivered < MaxLines
  /\ \E line \in LinesSent(pKind) :
       /\ pSent' = Append(pSent, line)
       /\ pChunk' = [pChunk EXCEPT !.text = @ \o line \o <<NL>>, !.lines = @ + 1]
  /\ UNCHANGED <<pKind, pPc, pTail, pCuts, pLines, pRead, pSt, pOut>>
  /\ UNCHANGED mainVars
  /\ UNCHANGED resolveVars

\* the chunk boundary falls inside the next line: its first part ends this
\* chunk, the rest begins the next one
SendPart ==
  /\ pPc = "streaming"
  /\ pLines = <<>>
  /\ ~pChunk.full
  /\ LinesDelivered + 1 < MaxLines
  /\ pCuts < MaxCuts
  /\ \E line \in LinesSent(pKind) :
       \E at \in 1..(Len(line) - 1) :
         /\ pSent' = Append(pSent, line)
         /\ pChunk' = [pChunk EXCEPT !.text = @ \o SubSeq(line, 1, at), !.full = TRUE]
         /\ pTail' = SubSeq(line, at + 1, Len(line)) \o <<NL>>
  /\ pCuts' = pCuts + 1
  /\ UNCHANGED <<pKind, pPc, pLines, pRead, pSt, pOut>>
  /\ UNCHANGED mainVars
  /\ UNCHANGED resolveVars

\* for await (const chunk of stream): the chunk arrives and is split into
\* its lines; the transport begins the next chunk with the rest of a cut line
ReadChunk ==
  /\ pPc = "streaming"
  /\ pLines = <<>>
  /\ pChunk.text # <<>>
  /\ pLines' = LinesOf(pChunk.text)
  /\ pChunk' = [text |-> IF pChunk.full THEN pTail ELSE <<>>, lines |-> 0, full |-> FALSE]
  /\ pTail' = IF pChunk.full THEN <<>> ELSE pTail
  /\ UNCHANGED <<pKind, pPc, pSent, pCuts, pRead, pSt, pOut>>
  /\ UNCHANGED mainVars
  /\ UNCHANGED resolveVars

\* the body of the loop over the lines runs for the next line; at the
\* sentinel the generator returns and the rest is never read
HandleLine ==
  /\ pPc = "streaming"
  /\ pLines # <<>>
  /\ LET r == ParseLine(pKind, pSt, Head(pLines)) IN
     /\ pSt' = r.st
     /\ pOut' = Append(pOut, r.events)
     /\ pRead' = Append(pRead, Head(pLines))
     /\ pPc' = IF r.done THEN "closed" ELSE "streaming"
     /\ pLines' = IF r.done THEN <<>> ELSE Tail(pLines)
  /\ UNCHANGED <<pKind, pSent, pChunk, pTail, pCuts>>
  /\ UNCHANGED mainVars
  /\ UNCHANGED resolveVars

\* the upstream ends the response
EndOfStream ==
  /\ pPc = "streaming"
  /\ pLines = <<>>
  /\ pChunk.text = <<>>
  /\ pPc' = "ended"
  /\ UNCHANGED <<pKind, pSent, pChunk, pTail, pCuts, pLines, pRead, pSt, pOut>>
  /\ UNCHANGED mainVars
  /\ UNCHANGED resolveVars

\* the transport fails in place of the next chunk, while the parser waits
\* for it: caught, logged and rethrown (lines 228-231, 300-303)
TransportError ==
  /\ pPc = "streaming"
  /\ pLines = <<>>
  /\ pChunk.text = <<>>
  /\ pPc' = "failed"
  /\ UNCHANGED <<pKind, pSent, pChunk, pTail, pCuts, pLines, pRead, pSt, pOut>>
  /\ UNCHANGED mainVars
  /\ UNCHANGED resolveVars

NextParse ==
  SendLine \/ SendPart \/ ReadChunk \/ HandleLine \/ EndOfStream \/ TransportError

SpecParse == InitParse /\ [][NextParse]_vars

\* ------------------------------------------------------------------ properties of the parsers
\* the line is "data: " followed by the whole text of one JSON value
IsFrame(line) ==
  /\ Len(line) = 4
  /\ line[1] = D1 /\ line[2] = D2
  /\ line[3].k = "json" /\ line[4] = JsonClose

FrameOf(line) == line[3].v

\* the lines handled before the k-th and the k-th
ReadUpTo(k) == SubSeq(pRead, 1, k)

Last(counts) == IF counts = <<>> THEN 0 ELSE counts[Len(counts)]

\* the output counts the message_delta frames among the lines report
AnthropicOutputs(lines) ==
  LET reports == SelectSeq(lines,
        LAMBDA l : IsFrame(l) /\ FrameOf(l).type = "message_delta"
                   /\ Has(FrameOf(l), "usage")) IN
  [i \in 1..Len(reports) |-> FrameOf(reports[i]).usage.output_tokens]

\* the input counts the message_start frames among the lines report
AnthropicInputs(lines) ==
  LET reports == SelectSeq(lines,
        LAMBDA l : IsFrame(l) /\ FrameOf(l).type = "message_start") IN
  [i \in 1..Len(reports) |-> FrameOf(reports[i]).message.usage.input_tokens]

\* the block of a content_block_start / content_block_delta frame
BlockOf(f) == IF f.type = "content_block_start" THEN f.content_block ELSE f.delta

IsBlockFrame(f) == f.type \in {"content_block_start", "content_block_delta"}

\* C7 as stated: the Anthropic parser yields, for each line in order, a
\* usage event (input_tokens, output so far) if it is a message_start, a
\* text event with the block's text if it is a content_block_start or a
\* content_block_delta, a usage event (0, output_tokens) if it is a
\* message_delta with usage, and nothing otherwise
C7_EventPerFrame ==
  pKind = "anthropic" =>
    \A k \in 1..Len(pRead) :
      LET line == pRead[k] IN
      IF ~IsFrame(line) THEN pOut[k] = <<>>
      ELSE LET f == FrameOf(line) IN
        IF f.type = "message_start"
        THEN pOut[k] = <<Usage(f.message.usage.input_tokens,
                               Last(AnthropicOutputs(ReadUpTo(k - 1))))>>
        ELSE IF IsBlockFrame(f)
        THEN /\ Len(pOut[k]) = 1
             /\ pOut[k][1].type = "text"
             /\ Has(BlockOf(f), "text") => pOut[k][1].text = BlockOf(f).text
        ELSE IF f.type = "message_delta" /\ Has(f, "usage")
        THEN pOut[k] = <<Usage(0, f.usage.output_tokens)>>
        ELSE pOut[k] = <<>>

\* C7: the same, with a text event only for a content_block_start or
\* content_block_delta whose block is of type text or text_delta (its text,
\* "" when it has none) and nothing for a block of another type
C7_EventPerTextFrame ==
  pKind = "anthropic" =>
    \A k \in 1..Len(pRead) :
      LET line == pRead[k] IN
      IF ~IsFrame(line) THEN pOut[k] = <<>>
      ELSE LET f == FrameOf(line) IN
        IF f.type = "message_start"
        THEN pOut[k] = <<Usage(f.message.usage.input_tokens,
                               Last(AnthropicOutputs(ReadUpTo(k - 1))))>>
        ELSE IF IsBlockFrame(f)
        THEN IF Has(BlockOf(f), "type") /\ BlockOf(f).type \in {"text", "text_delta"}
             THEN pOut[k] = <<Text(IF Has(BlockOf(f), "text") THEN BlockOf(f).text ELSE "")>>
             ELSE pOut[k] = <<>>
        ELSE IF f.type = "message_delta" /\ Has(f, "usage")
        THEN pOut[k] = <<Usage(0, f.usage.output_tokens)>>
        ELSE pOut[k] = <<>>

\* the three frames of the example and their three events
C7_Witness ==
  /\ pKind = "anthropic"
  /\ pRead = <<DataLine(MsgStart), DataLine(CbDelta), DataLine(MsgDelta)>>
  /\ pOut = << <<Usage(10, 0)>>, <<Text("hi")>>, <<Usage(0, 3)>> >>

\* the usage events among the batches of events
RECURSIVE UsageEvents(_)
UsageEvents(batches) ==
  IF batches = <<>> THEN <<>>
  ELSE SelectSeq(Head(batches), LAMBDA e : e.type = "usage") \o UsageEvents(Tail(batches))

IsSentinel(line) == trim(line) = <<D1, D2, DONE>>

\* C8: when the OpenAI parser reads the sentinel it yields one usage event
\* with the totals of the last usage event before it ((0,0) if there is
\* none) and closes: the sentinel is the last line it handles
C8_SentinelCloses ==
  pKind = "gpt" =>
    /\ \A k \in 1..Len(pRead) :
         IsSentinel(pRead[k]) =>
           /\ k = Len(pRead)
           /\ pPc = "closed"
           /\ LET before == UsageEvents(SubSeq(pOut, 1, k - 1)) IN
              pOut[k] = << IF before = <<>> THEN Usage(0, 0)
                           ELSE before[Len(before)] >>
    /\ pPc = "closed" => pRead # <<>> /\ IsSentinel(pRead[Len(pRead)])

\* the parser has closed at the sentinel with the totals reported before
\* it, a line sent after the sentinel in the same chunk is left unread
C8_Witness ==
  /\ pKind = "gpt"
  /\ pPc = "closed"
  /\ pSent = <<DataLine(GptUsageFull), DoneLine, DataLine(GptDelta)>>
  /\ pRead = <<DataLine(GptUsageFull), DoneLine>>
  /\ pOut = << <<Usage(5, 2)>>, <<Usage(5, 2)>> >>

\* a "data: " line whose payload is no JSON (the sentinel of the OpenAI
\* format aside, which that parser handles before it parses)
Malformed(line) ==
  /\ startsWithData(line)
  /\ JSONparse(slice6(line)) = SyntaxError
  /\ ~(pKind = "gpt" /\ IsSentinel(line))

\* the batches of events for the lines, handled from the locals st on
RECURSIVE Replay(_, _, _)
Replay(kind, st, lines) ==
  IF lines = <<>> THEN <<>>
  ELSE LET r == ParseLine(kind, st, Head(lines)) IN
       IF r.done THEN << r.events >>
       ELSE << r.events >> \o Replay(kind, r.st, Tail(lines))

WellFormedAt == {k \in 1..Len(pRead) : ~Malformed(pRead[k])}

\* the elements of seq at the indices in keep, in order
RECURSIVE Pick(_, _, _)
Pick(seq, keep, k) ==
  IF k > Len(seq) THEN <<>>
  ELSE (IF k \in keep THEN <<seq[k]>> ELSE <<>>) \o Pick(seq, keep, k + 1)

\* C9: in both parsers a malformed "data: " line yields no event and does
\* not close the stream, and the other lines yield exactly the events they
\* yield when the malformed lines are not in the stream
C9_MalformedLineSkipped ==
  /\ \A k \in 1..Len(pRead) :
       Malformed(pRead[k]) =>
         /\ pOut[k] = <<>>
         /\ k = Len(pRead) => pPc # "closed"
  /\ Pick(pOut, WellFormedAt, 1) =
       Replay(pKind, ParserStart(pKind), Pick(pRead, WellFormedAt, 1))

\* a malformed line between two frames, and the events of the two frames
C9_Witness ==
  /\ pKind = "anthropic"
  /\ pPc = "streaming"
  /\ pRead = <<DataLine(MsgStart), BadLine, DataLine(CbDelta)>>
  /\ pOut = << <<Usage(10, 0)>>, <<>>, <<Text("hi")>> >>

\* the counts f of the usage objects of the OpenAI frames among the lines
GptCounts(lines, f) ==
  LET reports == SelectSeq(lines,
        LAMBDA l : IsFrame(l) /\ Has(FrameOf(l), "usage")
                   /\ Has(FrameOf(l).usage, f)) IN
  [i \in 1..Len(reports) |-> FrameOf(reports[i]).usage[f]]

NonZero(counts) == SelectSeq(counts, LAMBDA n : n # 0)

\* the latest input and output counts the lines report; a count of 0 in
\* an OpenAI usage object is taken as no report
LatestInput(lines) ==
  IF pKind = "gpt" THEN Last(NonZero(GptCounts(lines, "prompt_tokens")))
  ELSE Last(AnthropicInputs(lines))

LatestOutput(lines) ==
  IF pKind = "gpt" THEN Last(NonZero(GptCounts(lines, "completion_tokens")))
  ELSE Last(AnthropicOutputs(lines))

\* C10 as stated: every usage event of either parser carries the latest
\* input count and the latest output count reported up to its line
C10_UsageIsLatest ==
  \A k \in 1..Len(pRead) :
    \A n \in 1..Len(pOut[k]) :
      pOut[k][n].type = "usage" =>
        /\ pOut[k][n].inputTokens = LatestInput(ReadUpTo(k))
        /\ pOut[k][n].outputTokens = LatestOutput(ReadUpTo(k))

\* C10: every usage event of either parser carries the latest output count
\* reported up to its line, and the latest input count reported up to its
\* line, except that the usage event of an Anthropic message_delta carries
\* the input count 0
C10_UsageIsLatestOrZero ==
  \A k \in 1..Len(pRead) :
    \A n \in 1..Len(pOut[k]) :
      pOut[k][n].type = "usage" =>
        /\ pOut[k][n].inputTokens =
             IF pKind = "anthropic" /\ FrameOf(pRead[k]).type = "message_delta"
             THEN 0
             ELSE LatestInput(ReadUpTo(k))
        /\ pOut[k][n].outputTokens = LatestOutput(ReadUpTo(k))

\* a message_start after a message_delta: 0 at the message_delta, both
\* latest counts at the second message_start
C10_Witness ==
  /\ pKind = "anthropic"
  /\ pRead = <<DataLine(MsgStart), DataLine(MsgDelta), DataLine(MsgStart)>>
  /\ pOut = << <<Usage(10, 0)>>, <<Usage(0, 3)>>, <<Usage(10, 3)>> >>

\* the totals of the last usage event among the batches, (0, 0) without one
TotalsAfter(batches) ==
  LET before == UsageEvents(batches) IN
  IF before = <<>> THEN Usage(0, 0) ELSE before[Len(before)]

\* C14: for every OpenAI frame with a usage object the parser yields one
\* usage event; its inputTokens is the frame's prompt_tokens and its
\* outputTokens the frame's completion_tokens, each replaced by the total
\* of the usage event before only when the frame does not have the field
C14_UsageFromFrame ==
  pKind = "gpt" =>
    \A k \in 1..Len(pRead) :
      (IsFrame(pRead[k]) /\ Has(FrameOf(pRead[k]), "usage")) =>
        LET u == FrameOf(pRead[k]).usage
            previous == TotalsAfter(SubSeq(pOut, 1, k - 1)) IN
        UsageEvents(<<pOut[k]>>) =
          << Usage(IF Has(u, "prompt_tokens") THEN u.prompt_tokens
                   ELSE previous.inputTokens,
                   IF Has(u, "completion_tokens") THEN u.completion_tokens
                   ELSE previous.outputTokens) >>

\* an OpenAI frame whose first choice has finish_reason "stop"
IsStopFrame(line) ==
  /\ IsFrame(line)
  /\ Has(FrameOf(line), "choices") /\ Len(FrameOf(line).choices) > 0
  /\ Has(FrameOf(line).choices[1], "finish_reason")
  /\ FrameOf(line).choices[1].finish_reason = "stop"

\* C15: the OpenAI parser yields at most one usage event per line, a frame
\* with finish_reason "stop" yields the flush of the totals exactly when it
\* has no usage object, and a "stop" frame without usage followed by the
\* sentinel does not yield the same totals twice
C15_FinalUsageOnce ==
  pKind = "gpt" =>
    \A k \in 1..Len(pRead) :
      /\ Len(UsageEvents(<<pOut[k]>>)) <= 1
      /\ (IsStopFrame(pRead[k]) /\ ~Has(FrameOf(pRead[k]), "usage")) =>
           UsageEvents(<<pOut[k]>>) = << TotalsAfter(SubSeq(pOut, 1, k - 1)) >>
      /\ ( /\ k > 1
           /\ IsSentinel(pRead[k])
           /\ IsStopFrame(pRead[k - 1]) /\ ~Has(FrameOf(pRead[k - 1]), "usage") ) =>
           UsageEvents(<<pOut[k - 1]>>) # UsageEvents(<<pOut[k]>>)

\* the events of the batches, in order
RECURSIVE Events(_)
Events(batches) ==
  IF batches = <<>> THEN <<>> ELSE Head(batches) \o Events(Tail(batches))

\* C17: when a parser has read a response to its end (or to the sentinel),
\* the events it has yielded are those of the lines the upstream sent, read
\* one whole line at a time, wherever the transport cut the chunks
C17_ChunkingIrrelevant ==
  pPc \in {"ended", "closed"} =>
    Events(pOut) = Events(Replay(pKind, ParserStart(pKind), pSent))

\* ------------------------------------------------------------------ the resolver on its own
\* getDeploymentForModel(modelId) for any modelId and any cached list, with
\* a listing endpoint that answers
Gpt4oDated == Gpt4o \o <<":">> \o V2

ResolveModelIds == {Gpt4o, GptUpper, Gpt4oDated, Gpt4, Gpt4oMini, Claude3Haiku}

ResGpt4 == Resource("d9", "RUNNING", TRUE, Gpt4, V1)

ResMini == Resource("d10", "RUNNING", TRUE, Gpt4oMini, V1)

ResolveResources == {ResGpt4o, ResGptUpper, ResGpt4, ResMini, ResHaikuStopped}

\* sequences of at most n elements of a set
SeqsUpTo(S, n) == UNION {[1..k -> S] : k \in 0..n}

ResolveListings == SeqsUpTo(ResolveResources, MaxList)

InitResolve ==
  /\ HandlerOff
  /\ ParserOff
  /\ rsModelId \in ResolveModelIds
  /\ rsCache \in {NoDeployments} \cup {Fetched(FilterDeployments(l)) : l \in ResolveListings}
  /\ rsResult = NoResponse

\* lines 95-105 for the list the cache holds
Resolved(list, modelId, refreshes) ==
  LET deployment == Find(list, modelId) IN
  IF deployment = Null
  THEN [ok |-> FALSE, msg |-> NoDeploymentMsg, model |-> modelId, refreshes |-> refreshes]
  ELSE [ok |-> TRUE, id |-> deployment.id, refreshes |-> refreshes]

\* the cache holds a match: line 91 is false, no refresh
ResolveCached ==
  /\ rsResult = NoResponse
  /\ rsCache.defined /\ hasDeploymentForModel(rsCache, rsModelId)
  /\ rsResult' = Resolved(rsCache.list, rsModelId, 0)
  /\ UNCHANGED <<rsModelId, rsCache>>
  /\ UNCHANGED mainVars
  /\ UNCHANGED parseVars

\* no cache or no match in it: the list is fetched and replaces the cache
ResolveRefresh ==
  /\ rsResult = NoResponse
  /\ ~rsCache.defined \/ ~hasDeploymentForModel(rsCache, rsModelId)
  /\ \E resources \in ResolveListings :
       /\ rsCache' = Fetched(FilterDeployments(resources))
       /\ rsResult' = Resolved(rsCache'.list, rsModelId, 1)
  /\ UNCHANGED rsModelId
  /\ UNCHANGED mainVars
  /\ UNCHANGED parseVars

NextResolve == ResolveCached \/ ResolveRefresh

SpecResolve == InitResolve /\ [][NextResolve]_vars

\* ------------------------------------------------------------------ properties of the resolver
\* the places of the list whose label has the base name of modelId
MatchesAt(list, modelId) ==
  {i \in 1..Len(list) : SameBaseName(list[i].name, modelId)}

\* C5: getDeploymentForModel succeeds exactly when the label of some entry
\* of the list it searches, cut at its first ":" and lower-cased, equals
\* modelId cut at its first ":" and lower-cased, and it returns the id of
\* the first such entry
C5_FirstBaseNameMatch ==
  rsResult # NoResponse =>
    LET hits == MatchesAt(rsCache.list, rsModelId) IN
    /\ rsResult.ok <=> hits # {}
    /\ rsResult.ok =>
         \E i \in hits :
           /\ \A j \in hits : i <= j
           /\ rsResult.id = rsCache.list[i].id

\* "gpt-4o:2024" against the labels "GPT-4o:2024" and "gpt-4o:1": both
\* match, the first is returned
C5_Witness ==
  /\ rsModelId = Gpt4oDated
  /\ Len(rsCache.list) = 2
  /\ rsCache.list[1] = [id |-> "d7", name |-> GptUpper \o <<":">> \o V2]
  /\ rsCache.list[2] = [id |-> "d1", name |-> Gpt4o \o <<":">> \o V1]
  /\ rsResult # NoResponse /\ rsResult.ok /\ rsResult.id = "d7"

\* C13: getDeploymentForModel called with a cache that holds an entry with
\* the base name of modelId fetches no list, leaves the cache as it is and
\* returns the id of the first such entry; it fetches the list (once) only
\* when there is no cache or no such entry in it
C13_CacheHitNoListing ==
  [][(rsResult = NoResponse /\ rsResult' # NoResponse) =>
       LET hits == MatchesAt(rsCache.list, rsModelId) IN
       IF rsCache.defined /\ hits # {}
       THEN /\ rsResult'.refreshes = 0
            /\ rsCache' = rsCache
            /\ rsResult'.ok
            /\ \E i \in hits :
                 /\ \A j \in hits : i <= j
                 /\ rsResult'.id = rsCache.list[i].id
       ELSE rsResult'.refreshes = 1]_vars

\* "gpt-4o:2024" with the cached labels "gpt-4:1" and "GPT-4o:2024": served
\* from the cache
C13_Witness ==
  /\ rsModelId = Gpt4oDated
  /\ rsCache.list = << [id |-> "d9", name |-> Gpt4 \o <<":">> \o V1],
                       [id |-> "d7", name |-> GptUpper \o <<":">> \o V2] >>
  /\ rsResult # NoResponse /\ rsResult.ok
  /\ rsResult.id = "d7" /\ rsResult.refreshes = 0

====
